---- MODULE Spec2Model ----
(***************************************************************************)
(* Model of portal/hailo_inference.py: the `diagnose` command of main(),   *)
(* HailoHVACDiagnostics.initialize, the sequential and the simultaneous    *)
(* (threaded) ensemble executor, interpret_diagnosis and                   *)
(* aggregate_diagnoses.                                                    *)
(*                                                                         *)
(* Representation.                                                         *)
(*  - A Python dict is a sequence of [key, val] pairs in insertion order   *)
(*    (dicts iterate in insertion order); dict equality ignores the order. *)
(*  - A probability / confidence is an integer number of hundredths        *)
(*    (90 is 0.9); the literal 0.5 is FaultThreshold = 50.                 *)
(*  - consensus = fault_votes / len(valid_results) is the fraction         *)
(*    [num, den] in lowest terms; `consensus > 0.7` is 10*num > 7*den.     *)
(*  - An f-string is the concatenation of its pieces.                      *)
(*  - The HailoRT device, the model files and the backend are the          *)
(*    environment: deviceOk and hw, fixed for one run of the process.      *)
(***************************************************************************)
EXTENDS Integers, Sequences, FiniteSets, TLC

\* Number of entries of MODEL_PATHS the model runs with (a prefix of the
\* registry, in its order).
NumModels == 3

\* Largest result mapping handed to aggregate_diagnoses in SpecAgg.
MaxResults == 10

AllModelNames ==
    << "apollo", "aquilo", "boreas", "naiad",
       "vulcan", "zephyrus", "colossus", "gaia" >>

\* MODEL_PATHS.keys(), in dict order.
MODEL_PATHS ==
    SubSeq(AllModelNames, 1, IF NumModels < Len(AllModelNames) THEN NumModels ELSE Len(AllModelNames))

ModelNames == { MODEL_PATHS[i] : i \in 1..Len(MODEL_PATHS) }

\* 0.5, in hundredths: the literal of `fault_prob > 0.5` and `fault_prob < 0.5`.
FaultThreshold == 50

\* 0.7 and 0.3, in tenths: the literals of aggregate_diagnoses.
ConsensusHigh == 7
ConsensusLow == 3

\* First scalars the backend can return, in hundredths: the threshold itself
\* and two values above it (an empty row gives the value below it, 0.0).
Probs == { 50, 60, 90 }

\* Wall-clock time one backend call can be measured to take, in ms.
BackendMs == { 4 }

\* Wall-clock time the whole ensemble can be measured to take, in ms.
EnsembleMs == { 4, 9 }

None == [none |-> TRUE]

IsNone(x) == "none" \in DOMAIN x

(***************************************************************************)
(* Python dict operations                                                  *)
(***************************************************************************)
DictKeys(d) == { d[i].key : i \in 1..Len(d) }

DictIndex(d, k) == CHOOSE i \in 1..Len(d) : d[i].key = k

\* d[k]
DictGet(d, k) == d[DictIndex(d, k)].val

\* d[k] = v : a new key goes last, an existing key keeps its place.
DictSet(d, k, v) ==
    IF k \in DictKeys(d)
    THEN [d EXCEPT ![DictIndex(d, k)] = [key |-> k, val |-> v]]
    ELSE Append(d, [key |-> k, val |-> v])

(***************************************************************************)
(* interpret_diagnosis                                                     *)
(***************************************************************************)
NormalString ==
    [ apollo   |-> "System coordination normal",
      aquilo   |-> "Electrical systems normal",
      boreas   |-> "Refrigeration normal",
      naiad    |-> "Flow systems normal",
      vulcan   |-> "Mechanical systems normal",
      zephyrus |-> "Airflow normal",
      colossus |-> "No pattern anomalies",
      gaia     |-> "Safety parameters normal" ]

FaultString ==
    [ apollo   |-> "System coordination issue detected",
      aquilo   |-> "Electrical fault detected",
      boreas   |-> "Refrigeration issue detected",
      naiad    |-> "Flow restriction detected",
      vulcan   |-> "Mechanical fault detected",
      zephyrus |-> "Airflow issue detected",
      colossus |-> "Pattern anomaly detected",
      gaia     |-> "Safety concern detected" ]

interpret_diagnosis(model_name, fault_prob) ==
    IF model_name \in DOMAIN NormalString
    THEN (IF fault_prob < FaultThreshold
          THEN NormalString[model_name]
          ELSE FaultString[model_name])
    ELSE "Unknown"

(***************************************************************************)
(* aggregate_diagnoses                                                     *)
(***************************************************************************)
RECURSIVE Gcd(_, _)
Gcd(a, b) == IF b = 0 THEN a ELSE Gcd(b, a % b)

\* The Python value n / d (d > 0), in lowest terms.
Fraction(n, d) == [num |-> n \div Gcd(n, d), den |-> d \div Gcd(n, d)]

\* The int 0 of `'consensus': 0`; 0 == 0.0 in Python and in JSON consumers.
Zero == [num |-> 0, den |-> 1]

\* ExceedsTenths with a slip: >= for >.
ExceedsTenths_Inclusive(consensus, t) == 10 * consensus.num >= t * consensus.den

\* consensus > t/10
ExceedsTenths(consensus, t) == 10 * consensus.num > t * consensus.den

HasConfidence(r) == "confidence" \in DOMAIN r

\* v.get('fault_detected', False)
FaultFlag(r) == IF "fault_detected" \in DOMAIN r THEN r.fault_detected ELSE FALSE

\* x[1].get('confidence', 0)
ConfidenceKey(r) == IF "confidence" \in DOMAIN r THEN r.confidence ELSE 0

IsValidItem(item) == HasConfidence(item.val)

IsFaultItem(item) == FaultFlag(item.val)

\* max(faults, key=...): a left-to-right scan that keeps the first maximum.
RECURSIVE MaxScan(_, _)
MaxScan(best, rest) ==
    IF rest = << >> THEN best
    ELSE MaxScan(IF ConfidenceKey(Head(rest).val) > ConfidenceKey(best.val)
                 THEN Head(rest) ELSE best,
                 Tail(rest))

PrimaryFault(faults) == MaxScan(Head(faults), Tail(faults))

\* aggregate_diagnoses with a slip: the votes are divided by len(results).
aggregate_diagnoses_AllResults(results) ==
    LET valid_results == SelectSeq(results, IsValidItem)
        fault_votes == Len(SelectSeq(valid_results, IsFaultItem))
        consensus == Fraction(fault_votes, Len(results))
        faults == SelectSeq(results, IsFaultItem)
    IN  IF valid_results = << >>
        THEN [diagnosis |-> "Unable to complete diagnosis", consensus |-> Zero]
        ELSE [diagnosis |->
                 IF ExceedsTenths(consensus, ConsensusHigh)
                 THEN (IF faults # << >>
                       THEN "FAULT DETECTED: " \o PrimaryFault(faults).val.diagnosis
                       ELSE "Multiple system issues detected")
                 ELSE IF ExceedsTenths(consensus, ConsensusLow)
                 THEN "Potential issue detected - monitoring recommended"
                 ELSE "System operating normally",
              consensus |-> consensus]

\* aggregate_diagnoses with a slip: the primary fault is looked for among the
\* fault results whose confidence is over the consensus threshold.
aggregate_diagnoses_ConfidentFaults(results) ==
    LET valid_results == SelectSeq(results, IsValidItem)
        fault_votes == Len(SelectSeq(valid_results, IsFaultItem))
        consensus == Fraction(fault_votes, Len(valid_results))
        faults == SelectSeq(results,
                            LAMBDA item : IsFaultItem(item)
                                          /\ ConfidenceKey(item.val) > 10 * ConsensusHigh)
    IN  IF valid_results = << >>
        THEN [diagnosis |-> "Unable to complete diagnosis", consensus |-> Zero]
        ELSE [diagnosis |->
                 IF ExceedsTenths(consensus, ConsensusHigh)
                 THEN (IF faults # << >>
                       THEN "FAULT DETECTED: " \o PrimaryFault(faults).val.diagnosis
                       ELSE "Multiple system issues detected")
                 ELSE IF ExceedsTenths(consensus, ConsensusLow)
                 THEN "Potential issue detected - monitoring recommended"
                 ELSE "System operating normally",
              consensus |-> consensus]

aggregate_diagnoses(results) ==
    LET valid_results == SelectSeq(results, IsValidItem)
        fault_votes == Len(SelectSeq(valid_results, IsFaultItem))
        consensus == Fraction(fault_votes, Len(valid_results))
        faults == SelectSeq(results, IsFaultItem)
    IN  IF valid_results = << >>
        THEN [diagnosis |-> "Unable to complete diagnosis", consensus |-> Zero]
        ELSE [diagnosis |->
                 IF ExceedsTenths(consensus, ConsensusHigh)
                 THEN (IF faults # << >>
                       THEN "FAULT DETECTED: " \o PrimaryFault(faults).val.diagnosis
                       ELSE "Multiple system issues detected")
                 ELSE IF ExceedsTenths(consensus, ConsensusLow)
                 THEN "Potential issue detected - monitoring recommended"
                 ELSE "System operating normally",
              consensus |-> consensus]

(***************************************************************************)
(* Per-model results                                                       *)
(***************************************************************************)
\* float(output[0]) if len(output) > 0 else 0.0
FaultProb(output) == IF Len(output.vec) > 0 THEN output.vec[1] ELSE 0

\* SequentialResult with a slip: an empty output row is taken for a failed call.
SequentialResult_EmptyFails(model_name, output) ==
    IF ~IsNone(output) /\ Len(output.vec) > 0
    THEN [fault_detected |-> FaultProb(output) > FaultThreshold,
          confidence     |-> FaultProb(output),
          diagnosis      |-> interpret_diagnosis(model_name, FaultProb(output))]
    ELSE [error |-> "Inference failed"]

\* diagnose, lines 216-225: the entry the sequential loop stores.
SequentialResult(model_name, output) ==
    IF ~IsNone(output)
    THEN [fault_detected |-> FaultProb(output) > FaultThreshold,
          confidence     |-> FaultProb(output),
          diagnosis      |-> interpret_diagnosis(model_name, FaultProb(output))]
    ELSE [error |-> "Inference failed"]

\* ThreadResult with a slip: the threshold itself counts as a fault.
ThreadResult_Inclusive(model_name, output, inference_time) ==
    IF ~IsNone(output)
    THEN [fault_detected    |-> FaultProb(output) >= FaultThreshold,
          confidence        |-> FaultProb(output),
          diagnosis         |-> interpret_diagnosis(model_name, FaultProb(output)),
          inference_time_ms |-> inference_time]
    ELSE [error |-> "Inference failed"]

\* ThreadResult with a slip: the elapsed time is not stored.
ThreadResult_NoTime(model_name, output, inference_time) ==
    IF ~IsNone(output)
    THEN [fault_detected    |-> FaultProb(output) > FaultThreshold,
          confidence        |-> FaultProb(output),
          diagnosis         |-> interpret_diagnosis(model_name, FaultProb(output))]
    ELSE [error |-> "Inference failed"]

\* run_model, lines 162-171: the entry a thread stores under the lock.
ThreadResult(model_name, output, inference_time) ==
    IF ~IsNone(output)
    THEN [fault_detected    |-> FaultProb(output) > FaultThreshold,
          confidence        |-> FaultProb(output),
          diagnosis         |-> interpret_diagnosis(model_name, FaultProb(output)),
          inference_time_ms |-> inference_time]
    ELSE [error |-> "Inference failed"]

NotLoaded == [error |-> "Model not loaded"]

\* Lines 190-192: total_ensemble_time_ms on every entry without 'error'.
RECURSIVE AddTiming(_, _)
AddTiming(results, total_time) ==
    IF results = << >> THEN << >>
    ELSE << [key |-> Head(results).key,
             val |-> IF "error" \notin DOMAIN Head(results).val
                     THEN [f \in DOMAIN Head(results).val \cup {"total_ensemble_time_ms"} |->
                              IF f = "total_ensemble_time_ms" THEN total_time
                              ELSE Head(results).val[f]]
                     ELSE Head(results).val] >>
         \o AddTiming(Tail(results), total_time)

(***************************************************************************)
(* State                                                                   *)
(***************************************************************************)
VARIABLES
    entry,           \* "cli": main() runs `diagnose`; "api": diagnose() is called directly
    argData,         \* sys.argv[2]: what kind of payload the caller passed
    argMode,         \* sys.argv[3], or "absent"
    deviceOk,        \* whether VDevice(params) succeeds
    hw,              \* per model: HEF file, load and backend behaviour
    pc,              \* where main() is
    mode,            \* main's local `mode`
    models,          \* self.models
    network_groups,  \* keys of self.network_groups
    results,         \* the `results` dict being filled
    seqIdx,          \* position of the sequential for loop
    nStarted,        \* threads started by the spawning loop
    nJoined,         \* threads joined by the joining loop
    tpc,             \* where each run_model thread is
    tloc,            \* each thread's locals (output, inference_time)
    lock,            \* holder of `lock`, or "free"
    reply,           \* what the caller gets: the objects main prints, or diagnose's return value
    exitCode,        \* sys.exit status
    calls            \* per model: how many times the backend was invoked

vars ==
    << entry, argData, argMode, deviceOk, hw, pc, mode, models, network_groups,
       results, seqIdx, nStarted, nJoined, tpc, tloc, lock, reply, exitCode, calls >>

ArgDataKinds == { "absent", "invalid_json", "not_object", "object" }

\* sys.argv[3].  An explicit "simultaneous" gives main the mode that its
\* default gives (line 412); it is an input of SpecLive.
ArgModes == { "absent", "sequential", "parallel" }

\* What the environment does for one model: the HEF file is missing, loading
\* it raises, the backend call raises (or yields no row), or it returns a row.
HwKinds ==
    { [kind |-> "missing"], [kind |-> "loaderr"], [kind |-> "raise"] }
    \cup { [kind |-> "out", vec |-> v] : v \in { << >> } \cup { << p >> : p \in Probs } }

\* A direct call is modelled where it differs from main's call: with the mode
\* parameter left to its default, on an initialized object and a JSON object.
Init ==
    /\ \/ /\ entry = "cli"
          /\ argData \in ArgDataKinds
          /\ argMode \in ArgModes
          /\ deviceOk \in BOOLEAN
       \/ /\ entry = "api"
          /\ argData = "object"
          /\ argMode = "absent"
          /\ deviceOk = TRUE
    /\ hw \in [ModelNames -> HwKinds]
    /\ pc = "main"
    /\ mode = "unset"
    /\ models = << >>
    /\ network_groups = {}
    /\ results = << >>
    /\ seqIdx = 1
    /\ nStarted = 0
    /\ nJoined = 0
    /\ tpc = [m \in ModelNames |-> "unborn"]
    /\ tloc = [m \in ModelNames |-> None]
    /\ lock = "free"
    /\ reply = << >>
    /\ exitCode = 0
    /\ calls = [m \in ModelNames |-> 0]

(***************************************************************************)
(* initialize and run_inference                                            *)
(***************************************************************************)
\* The entry initialize stores for one model (path and size left out).
LoadEntry(model_name) ==
    IF hw[model_name].kind = "missing"
    THEN [loaded |-> FALSE, error |-> "File not found"]
    ELSE IF hw[model_name].kind = "loaderr"
    THEN [loaded |-> FALSE, error |-> "load error"]
    ELSE [loaded |-> TRUE]

\* LoadAll with a slip: the first load failure ends the loading loop.
LoadAll_StopAtFailure ==
    LET failed == { i \in 1..Len(MODEL_PATHS) : ~LoadEntry(MODEL_PATHS[i]).loaded }
        last   == IF failed = {} THEN Len(MODEL_PATHS)
                  ELSE CHOOSE i \in failed : \A j \in failed : i <= j
    IN  [i \in 1..last |->
            [key |-> MODEL_PATHS[i], val |-> LoadEntry(MODEL_PATHS[i])]]

\* self.models after the loading loop.
LoadAll ==
    [i \in 1..Len(MODEL_PATHS) |->
        [key |-> MODEL_PATHS[i], val |-> LoadEntry(MODEL_PATHS[i])]]

\* self.models.get(model_name, {}).get('loaded')
IsLoaded(model_name) ==
    /\ model_name \in DictKeys(models)
    /\ "loaded" \in DOMAIN DictGet(models, model_name)
    /\ DictGet(models, model_name).loaded

\* What run_inference returns once the backend call is over.
run_inference(model_name) ==
    IF model_name \notin network_groups THEN None
    ELSE IF hw[model_name].kind = "out" THEN [vec |-> hw[model_name].vec]
    ELSE None

(***************************************************************************)
(* main, command 'diagnose'                                                *)
(***************************************************************************)
\* print(json.dumps(obj)) in main; `return obj` to a direct caller.
Emit(obj) == reply' = Append(reply, obj)

\* Lines 402-404.
NoSensorData ==
    /\ pc = "main"
    /\ entry = "cli"
    /\ argData = "absent"
    /\ Emit([error |-> "No sensor data provided"])
    /\ exitCode' = 1
    /\ pc' = "exit"
    /\ UNCHANGED << entry, argData, argMode, deviceOk, hw, mode, models, network_groups,
                    results, seqIdx, nStarted, nJoined, tpc, tloc, lock, calls >>

\* Lines 407, 420-421.
InvalidJson ==
    /\ pc = "main"
    /\ entry = "cli"
    /\ argData = "invalid_json"
    /\ Emit([error |-> "Invalid JSON sensor data"])
    /\ pc' = "exit"
    /\ UNCHANGED << entry, argData, argMode, deviceOk, hw, mode, models, network_groups,
                    results, seqIdx, nStarted, nJoined, tpc, tloc, lock, exitCode, calls >>

\* ParseArgs with a slip: main's default is "sequential".
ParseArgs_DefaultSequential ==
    /\ pc = "main"
    /\ entry = "cli"
    /\ argData \in { "not_object", "object" }
    /\ mode' = IF argMode = "absent" THEN "sequential" ELSE argMode
    /\ pc' = "initialize"
    /\ UNCHANGED << entry, argData, argMode, deviceOk, hw, models, network_groups,
                    results, seqIdx, nStarted, nJoined, tpc, tloc, lock, reply, exitCode, calls >>

\* Lines 407-412: main's `mode`, "simultaneous" unless sys.argv[3] is given.
ParseArgs ==
    /\ pc = "main"
    /\ entry = "cli"
    /\ argData \in { "not_object", "object" }
    /\ mode' = IF argMode = "absent" THEN "simultaneous" ELSE argMode
    /\ pc' = "initialize"
    /\ UNCHANGED << entry, argData, argMode, deviceOk, hw, models, network_groups,
                    results, seqIdx, nStarted, nJoined, tpc, tloc, lock, reply, exitCode, calls >>

\* Line 196: diagnose(self, sensor_data, mode='sequential') called without mode.
ApiCall ==
    /\ pc = "main"
    /\ entry = "api"
    /\ mode' = IF argMode = "absent" THEN "sequential" ELSE argMode
    /\ pc' = "initialize"
    /\ UNCHANGED << entry, argData, argMode, deviceOk, hw, models, network_groups,
                    results, seqIdx, nStarted, nJoined, tpc, tloc, lock, reply, exitCode, calls >>

\* InitializeOk with a slip: initialize reports failure when no model loaded.
InitializeOk_NeedsModel ==
    /\ pc = "initialize"
    /\ deviceOk
    /\ models' = LoadAll
    /\ network_groups' = { m \in ModelNames : LoadEntry(m).loaded }
    /\ IF \E m \in ModelNames : LoadEntry(m).loaded
       THEN /\ pc' = "diagnose"
            /\ UNCHANGED reply
       ELSE /\ pc' = "exit"
            /\ Emit([error |-> "Failed to initialize Hailo device"])
    /\ UNCHANGED << entry, argData, argMode, deviceOk, hw, mode,
                    results, seqIdx, nStarted, nJoined, tpc, tloc, lock, exitCode, calls >>

\* initialize returns True: lines 40-64, 414.
InitializeOk ==
    /\ pc = "initialize"
    /\ deviceOk
    /\ models' = LoadAll
    /\ network_groups' = { m \in ModelNames : LoadEntry(m).loaded }
    /\ pc' = "diagnose"
    /\ UNCHANGED << entry, argData, argMode, deviceOk, hw, mode,
                    results, seqIdx, nStarted, nJoined, tpc, tloc, lock, reply, exitCode, calls >>

\* initialize returns False: lines 65-67, 417-418.
InitializeFail ==
    /\ pc = "initialize"
    /\ ~deviceOk
    /\ Emit([error |-> "Failed to initialize Hailo device"])
    /\ pc' = "exit"
    /\ UNCHANGED << entry, argData, argMode, deviceOk, hw, mode, models, network_groups,
                    results, seqIdx, nStarted, nJoined, tpc, tloc, lock, exitCode, calls >>

\* prepare_sensor_data raises on a payload that is no JSON object: lines 206, 75, 422-423.
DiagnoseRaise ==
    /\ pc = "diagnose"
    /\ argData = "not_object"
    /\ Emit([error |-> "'list' object has no attribute 'get'"])
    /\ pc' = "exit"
    /\ UNCHANGED << entry, argData, argMode, deviceOk, hw, mode, models, network_groups,
                    results, seqIdx, nStarted, nJoined, tpc, tloc, lock, exitCode, calls >>

\* DiagnoseBegin with a slip: the payload is not looked at before the fan-out.
DiagnoseBegin_NoValidation ==
    /\ pc = "diagnose"
    /\ argData \in { "object", "not_object" }
    /\ results' = << >>
    /\ pc' = IF mode = "simultaneous" THEN "spawn" ELSE "sequential"
    /\ UNCHANGED << entry, argData, argMode, deviceOk, hw, mode, models, network_groups,
                    seqIdx, nStarted, nJoined, tpc, tloc, lock, reply, exitCode, calls >>

\* Lines 203-211: results = {}, the input vector, the branch on mode.
DiagnoseBegin ==
    /\ pc = "diagnose"
    /\ argData = "object"
    /\ results' = << >>
    /\ pc' = IF mode = "simultaneous" THEN "spawn" ELSE "sequential"
    /\ UNCHANGED << entry, argData, argMode, deviceOk, hw, mode, models, network_groups,
                    seqIdx, nStarted, nJoined, tpc, tloc, lock, reply, exitCode, calls >>

(***************************************************************************)
(* diagnose, sequential branch                                             *)
(***************************************************************************)
\* SeqStep with a slip: the backend call is started and the loop goes on to
\* the next model without waiting for it.
SeqStep_NoWait ==
    /\ pc = "sequential"
    /\ seqIdx <= Len(MODEL_PATHS)
    /\ IF IsLoaded(MODEL_PATHS[seqIdx])
       THEN /\ calls' = [calls EXCEPT ![MODEL_PATHS[seqIdx]] = @ + 1]
            /\ UNCHANGED results
       ELSE /\ results' = DictSet(results, MODEL_PATHS[seqIdx], NotLoaded)
            /\ UNCHANGED calls
    /\ seqIdx' = seqIdx + 1
    /\ pc' = "sequential"
    /\ UNCHANGED << entry, argData, argMode, deviceOk, hw, mode, models, network_groups,
                    nStarted, nJoined, tpc, tloc, lock, reply, exitCode >>

\* Lines 213-215, 226-227: next model; not loaded, or run_inference is
\* called and the backend invoked (line 134).
SeqStep ==
    /\ pc = "sequential"
    /\ seqIdx <= Len(MODEL_PATHS)
    /\ IF IsLoaded(MODEL_PATHS[seqIdx])
       THEN /\ pc' = "seq_infer"
            /\ calls' = [calls EXCEPT ![MODEL_PATHS[seqIdx]] = @ + 1]
            /\ UNCHANGED << results, seqIdx >>
       ELSE /\ results' = DictSet(results, MODEL_PATHS[seqIdx], NotLoaded)
            /\ seqIdx' = seqIdx + 1
            /\ pc' = "sequential"
            /\ UNCHANGED calls
    /\ UNCHANGED << entry, argData, argMode, deviceOk, hw, mode, models, network_groups,
                    nStarted, nJoined, tpc, tloc, lock, reply, exitCode >>

\* SeqReturn with a slip: a failed backend call ends the loop, and the models
\* after it get no entry.
SeqReturn_AbortOnFailure ==
    /\ pc = "seq_infer"
    /\ hw[MODEL_PATHS[seqIdx]].kind # "hang"
    /\ results' = DictSet(results, MODEL_PATHS[seqIdx],
                          SequentialResult(MODEL_PATHS[seqIdx],
                                           run_inference(MODEL_PATHS[seqIdx])))
    /\ seqIdx' = IF IsNone(run_inference(MODEL_PATHS[seqIdx]))
                 THEN Len(MODEL_PATHS) + 1 ELSE seqIdx + 1
    /\ pc' = "sequential"
    /\ UNCHANGED << entry, argData, argMode, deviceOk, hw, mode, models, network_groups,
                    nStarted, nJoined, tpc, tloc, lock, reply, exitCode, calls >>

\* Lines 215-225: run_inference returns and the entry is stored.  A backend
\* call that never returns (line 134 has no timeout) leaves the loop here.
SeqReturn ==
    /\ pc = "seq_infer"
    /\ hw[MODEL_PATHS[seqIdx]].kind # "hang"
    /\ results' = DictSet(results, MODEL_PATHS[seqIdx],
                          SequentialResult(MODEL_PATHS[seqIdx],
                                           run_inference(MODEL_PATHS[seqIdx])))
    /\ seqIdx' = seqIdx + 1
    /\ pc' = "sequential"
    /\ UNCHANGED << entry, argData, argMode, deviceOk, hw, mode, models, network_groups,
                    nStarted, nJoined, tpc, tloc, lock, reply, exitCode, calls >>

\* The for loop is exhausted.
SeqDone ==
    /\ pc = "sequential"
    /\ seqIdx > Len(MODEL_PATHS)
    /\ pc' = "aggregate"
    /\ UNCHANGED << entry, argData, argMode, deviceOk, hw, mode, models, network_groups,
                    results, seqIdx, nStarted, nJoined, tpc, tloc, lock, reply, exitCode, calls >>

(***************************************************************************)
(* run_simultaneous_inference                                              *)
(***************************************************************************)
\* Lines 178-181: one thread per key of MODEL_PATHS, started in order.
Spawn ==
    /\ pc = "spawn"
    /\ nStarted < Len(MODEL_PATHS)
    /\ tpc' = [tpc EXCEPT ![MODEL_PATHS[nStarted + 1]] = "started"]
    /\ nStarted' = nStarted + 1
    /\ pc' = IF nStarted + 1 = Len(MODEL_PATHS) THEN "join" ELSE "spawn"
    /\ UNCHANGED << entry, argData, argMode, deviceOk, hw, mode, models, network_groups,
                    results, seqIdx, nJoined, tloc, lock, reply, exitCode, calls >>

\* ThreadStart with a slip: a thread whose model is not loaded ends without
\* storing an entry.
ThreadStart_SkipUnloaded(m) ==
    /\ tpc[m] = "started"
    /\ tpc' = [tpc EXCEPT ![m] = IF IsLoaded(m) THEN "infer" ELSE "done"]
    /\ calls' = [calls EXCEPT ![m] = IF IsLoaded(m) THEN @ + 1 ELSE @]
    /\ UNCHANGED << entry, argData, argMode, deviceOk, hw, pc, mode, models, network_groups,
                    results, seqIdx, nStarted, nJoined, tloc, lock, reply, exitCode >>

\* Lines 155-158, 172: the loaded check; run_inference is called and the
\* backend invoked (line 134), or not.
ThreadStart(m) ==
    /\ tpc[m] = "started"
    /\ tpc' = [tpc EXCEPT ![m] = IF IsLoaded(m) THEN "infer" ELSE "lock"]
    /\ calls' = [calls EXCEPT ![m] = IF IsLoaded(m) THEN @ + 1 ELSE @]
    /\ UNCHANGED << entry, argData, argMode, deviceOk, hw, pc, mode, models, network_groups,
                    results, seqIdx, nStarted, nJoined, tloc, lock, reply, exitCode >>

\* ThreadInferReturn with a slip: a failed backend call is made once more.
ThreadInferReturn_Retry(m) ==
    /\ tpc[m] = "infer"
    /\ hw[m].kind # "hang"
    /\ IF IsNone(run_inference(m)) /\ calls[m] < 2
       THEN /\ calls' = [calls EXCEPT ![m] = @ + 1]
            /\ UNCHANGED << tloc, tpc >>
       ELSE /\ \E t \in BackendMs :
                  tloc' = [tloc EXCEPT ![m] = [output |-> run_inference(m),
                                               inference_time |-> t]]
            /\ tpc' = [tpc EXCEPT ![m] = "lock"]
            /\ UNCHANGED calls
    /\ UNCHANGED << entry, argData, argMode, deviceOk, hw, pc, mode, models, network_groups,
                    results, seqIdx, nStarted, nJoined, lock, reply, exitCode >>

\* Lines 158-159: run_inference returns; the elapsed time is taken.  A
\* backend call that never returns (line 134 has no timeout) leaves the thread
\* here.
ThreadInferReturn(m) ==
    /\ tpc[m] = "infer"
    /\ hw[m].kind # "hang"
    /\ \E t \in BackendMs :
          tloc' = [tloc EXCEPT ![m] = [output |-> run_inference(m), inference_time |-> t]]
    /\ tpc' = [tpc EXCEPT ![m] = "lock"]
    /\ UNCHANGED << entry, argData, argMode, deviceOk, hw, pc, mode, models, network_groups,
                    results, seqIdx, nStarted, nJoined, lock, reply, exitCode, calls >>

\* ThreadAcquire with a slip: the `with` block is entered whether or not
\* another thread is inside.
ThreadAcquire_NoWait(m) ==
    /\ tpc[m] = "lock"
    /\ lock' = m
    /\ tpc' = [tpc EXCEPT ![m] = "write"]
    /\ UNCHANGED << entry, argData, argMode, deviceOk, hw, pc, mode, models, network_groups,
                    results, seqIdx, nStarted, nJoined, tloc, reply, exitCode, calls >>

\* Lines 161, 173: `with lock:` entered.
ThreadAcquire(m) ==
    /\ tpc[m] = "lock"
    /\ lock = "free"
    /\ lock' = m
    /\ tpc' = [tpc EXCEPT ![m] = "write"]
    /\ UNCHANGED << entry, argData, argMode, deviceOk, hw, pc, mode, models, network_groups,
                    results, seqIdx, nStarted, nJoined, tloc, reply, exitCode, calls >>

\* ThreadWrite with a slip: the entry goes into the slot written last, and
\* the entry that was there is lost.
ThreadWrite_LostUpdate(m) ==
    /\ tpc[m] = "write"
    /\ LET r == [key |-> m,
                 val |-> IF IsNone(tloc[m]) THEN NotLoaded
                         ELSE ThreadResult(m, tloc[m].output, tloc[m].inference_time)]
       IN  results' = IF results = << >> THEN << r >>
                      ELSE [results EXCEPT ![Len(results)] = r]
    /\ lock' = "free"
    /\ tpc' = [tpc EXCEPT ![m] = "done"]
    /\ UNCHANGED << entry, argData, argMode, deviceOk, hw, pc, mode, models, network_groups,
                    seqIdx, nStarted, nJoined, tloc, reply, exitCode, calls >>

\* Lines 162-171, 174: the entry is stored and the `with` block left.
ThreadWrite(m) ==
    /\ tpc[m] = "write"
    /\ results' = DictSet(results, m,
                          IF IsNone(tloc[m]) THEN NotLoaded
                          ELSE ThreadResult(m, tloc[m].output, tloc[m].inference_time))
    /\ lock' = "free"
    /\ tpc' = [tpc EXCEPT ![m] = "done"]
    /\ UNCHANGED << entry, argData, argMode, deviceOk, hw, pc, mode, models, network_groups,
                    seqIdx, nStarted, nJoined, tloc, reply, exitCode, calls >>

\* Join with a slip: join gives up on a thread whose backend call does not
\* return.
Join_GivesUp ==
    /\ pc = "join"
    /\ nJoined < Len(MODEL_PATHS)
    /\ \A m \in ModelNames : tpc[m] = "done" \/ (tpc[m] = "infer" /\ hw[m].kind = "hang")
    /\ nJoined' = Len(MODEL_PATHS)
    /\ UNCHANGED << entry, argData, argMode, deviceOk, hw, pc, mode, models, network_groups,
                    results, seqIdx, nStarted, tpc, tloc, lock, reply, exitCode, calls >>

\* Join with a slip: only the first thread is waited for.
Join_FirstOnly ==
    /\ pc = "join"
    /\ nJoined < Len(MODEL_PATHS)
    /\ tpc[MODEL_PATHS[1]] = "done"
    /\ nJoined' = Len(MODEL_PATHS)
    /\ UNCHANGED << entry, argData, argMode, deviceOk, hw, pc, mode, models, network_groups,
                    results, seqIdx, nStarted, tpc, tloc, lock, reply, exitCode, calls >>

\* Lines 184-185: the joining loop; every thread.join() has returned once
\* every thread has ended.
Join ==
    /\ pc = "join"
    /\ nJoined < Len(MODEL_PATHS)
    /\ \A m \in ModelNames : tpc[m] = "done"
    /\ nJoined' = Len(MODEL_PATHS)
    /\ UNCHANGED << entry, argData, argMode, deviceOk, hw, pc, mode, models, network_groups,
                    results, seqIdx, nStarted, tpc, tloc, lock, reply, exitCode, calls >>

\* Lines 187-194: the total time, attached to the entries without 'error'.
AttachTiming ==
    /\ pc = "join"
    /\ nJoined = Len(MODEL_PATHS)
    /\ \E total_time \in EnsembleMs : results' = AddTiming(results, total_time)
    /\ pc' = "aggregate"
    /\ UNCHANGED << entry, argData, argMode, deviceOk, hw, mode, models, network_groups,
                    seqIdx, nStarted, nJoined, tpc, tloc, lock, reply, exitCode, calls >>

(***************************************************************************)
(* diagnose returns and main prints the report                             *)
(***************************************************************************)
\* Lines 230-236, 416.
DiagnoseReturn ==
    /\ pc = "aggregate"
    /\ Emit([models |-> results,
             final  |-> aggregate_diagnoses(results),
             mode   |-> mode])
    /\ pc' = "exit"
    /\ UNCHANGED << entry, argData, argMode, deviceOk, hw, mode, models, network_groups,
                    results, seqIdx, nStarted, nJoined, tpc, tloc, lock, exitCode, calls >>

Next ==
    \/ NoSensorData
    \/ InvalidJson
    \/ ParseArgs
    \/ ApiCall
    \/ InitializeOk
    \/ InitializeFail
    \/ DiagnoseRaise
    \/ DiagnoseBegin
    \/ SeqStep
    \/ SeqReturn
    \/ SeqDone
    \/ Spawn
    \/ \E m \in ModelNames : ThreadStart(m)
    \/ \E m \in ModelNames : ThreadInferReturn(m)
    \/ \E m \in ModelNames : ThreadAcquire(m)
    \/ \E m \in ModelNames : ThreadWrite(m)
    \/ Join
    \/ AttachTiming
    \/ DiagnoseReturn

Spec == Init /\ [][Next]_vars

(***************************************************************************)
(* aggregate_diagnoses on its own: every mapping of MaxResults entries     *)
(* whose values have the shapes the executor stores.                       *)
(***************************************************************************)
AggKinds == { "failure", "normal", "fault" }

\* Keys beyond the eight registered identifiers are made up.
AggKey(i) == IF i <= Len(AllModelNames) THEN AllModelNames[i] ELSE "model" \o ToString(i)

AggVal(i, kind) ==
    IF kind = "failure" THEN SequentialResult(AggKey(i), None)
    ELSE IF kind = "normal" THEN SequentialResult(AggKey(i), [vec |-> << >>])
    ELSE SequentialResult(AggKey(i), [vec |-> << 90 >>])

InitAgg ==
    /\ entry = "aggregate"
    /\ \E f \in [1..MaxResults -> AggKinds] :
          results = [i \in 1..MaxResults |-> [key |-> AggKey(i), val |-> AggVal(i, f[i])]]
    /\ pc = "agg_call"
    /\ argData = "object"
    /\ argMode = "absent"
    /\ deviceOk = TRUE
    /\ hw = [m \in ModelNames |-> [kind |-> "raise"]]
    /\ mode = "unset"
    /\ models = << >>
    /\ network_groups = {}
    /\ seqIdx = 1
    /\ nStarted = 0
    /\ nJoined = 0
    /\ tpc = [m \in ModelNames |-> "unborn"]
    /\ tloc = [m \in ModelNames |-> None]
    /\ lock = "free"
    /\ reply = << >>
    /\ exitCode = 0
    /\ calls = [m \in ModelNames |-> 0]

\* aggregate_diagnoses(results) is called and returns.
AggregateCall ==
    /\ pc = "agg_call"
    /\ Emit(aggregate_diagnoses(results))
    /\ pc' = "agg_done"
    /\ UNCHANGED << entry, argData, argMode, deviceOk, hw, mode, models, network_groups,
                    results, seqIdx, nStarted, nJoined, tpc, tloc, lock, exitCode, calls >>

NextAgg == AggregateCall

SpecAgg == InitAgg /\ [][NextAgg]_vars

(***************************************************************************)
(* diagnose from main with a backend call that may never return.  Neither  *)
(* infer (line 134) nor thread.join() (line 185) has a timeout.  The main   *)
(* thread and every worker thread is scheduled as long as it can take a    *)
(* step; a worker inside a call that does not return cannot.               *)
(***************************************************************************)
HwKindsLive ==
    { [kind |-> "missing"], [kind |-> "raise"], [kind |-> "hang"],
      [kind |-> "out", vec |-> << 90 >>] }

InitLive ==
    /\ entry = "cli"
    /\ argData = "object"
    /\ argMode \in { "sequential", "simultaneous" }
    /\ deviceOk = TRUE
    /\ hw \in [ModelNames -> HwKindsLive]
    /\ pc = "main"
    /\ mode = "unset"
    /\ models = << >>
    /\ network_groups = {}
    /\ results = << >>
    /\ seqIdx = 1
    /\ nStarted = 0
    /\ nJoined = 0
    /\ tpc = [m \in ModelNames |-> "unborn"]
    /\ tloc = [m \in ModelNames |-> None]
    /\ lock = "free"
    /\ reply = << >>
    /\ exitCode = 0
    /\ calls = [m \in ModelNames |-> 0]

\* The main thread: main, diagnose, run_simultaneous_inference.
MainStep ==
    \/ ParseArgs
    \/ InitializeOk
    \/ DiagnoseBegin
    \/ SeqStep
    \/ SeqReturn
    \/ SeqDone
    \/ Spawn
    \/ Join
    \/ AttachTiming
    \/ DiagnoseReturn

\* The worker thread of one model: run_model.
ThreadStep(m) ==
    \/ ThreadStart(m)
    \/ ThreadInferReturn(m)
    \/ ThreadAcquire(m)
    \/ ThreadWrite(m)

NextLive == MainStep \/ \E m \in ModelNames : ThreadStep(m)

SpecLive ==
    /\ InitLive
    /\ [][NextLive]_vars
    /\ WF_vars(MainStep)
    /\ \A m \in ModelNames : WF_vars(ThreadStep(m))

(***************************************************************************)
(* Vocabulary of the properties                                            *)
(***************************************************************************)
IsReport(obj) == "models" \in DOMAIN obj

IsError(obj) == "error" \in DOMAIN obj

\* diagnose has returned a report and the caller has it.
Returned == pc = "exit" /\ Len(reply) = 1 /\ IsReport(reply[1])

Report == reply[1]

IsSuccess(r) == "confidence" \in DOMAIN r

IsFailure(r) == "error" \in DOMAIN r /\ "confidence" \notin DOMAIN r

\* A result without its timing fields.
Core(r) ==
    IF IsSuccess(r)
    THEN [fault_detected |-> r.fault_detected, confidence |-> r.confidence,
          diagnosis |-> r.diagnosis]
    ELSE r

CoreSet(d) == { [key |-> d[i].key, val |-> Core(d[i].val)] : i \in 1..Len(d) }

SuccessIdx(d) == { i \in 1..Len(d) : IsSuccess(d[i].val) }

FaultIdx(d) == { i \in 1..Len(d) : IsSuccess(d[i].val) /\ d[i].val.fault_detected }

RanConcurrently == nStarted = Len(MODEL_PATHS) /\ seqIdx = 1

RanSequentially == nStarted = 0 /\ seqIdx = Len(MODEL_PATHS) + 1

RaisesFor(m) == hw[m].kind = "raise"

EmptyOutputFor(m) == hw[m].kind = "out" /\ hw[m].vec = << >>

ValueFor(m, p) == hw[m].kind = "out" /\ hw[m].vec = << p >>

NotLoadedFor(m) == hw[m].kind \in { "missing", "loaderr" }

\* The sequential branch of diagnose run to its end on the same registry and
\* backend: lines 213-236.
RECURSIVE SequentialLoop(_, _)
SequentialLoop(i, acc) ==
    IF i > Len(MODEL_PATHS) THEN acc
    ELSE SequentialLoop(i + 1,
             DictSet(acc, MODEL_PATHS[i],
                     IF IsLoaded(MODEL_PATHS[i])
                     THEN SequentialResult(MODEL_PATHS[i], run_inference(MODEL_PATHS[i]))
                     ELSE NotLoaded))

SequentialDiagnose ==
    [models |-> SequentialLoop(1, << >>),
     final  |-> aggregate_diagnoses(SequentialLoop(1, << >>)),
     mode   |-> "sequential"]

(***************************************************************************)
(* Properties                                                              *)
(***************************************************************************)
\* C1 (completeness): whenever diagnose has returned a report, in either mode
\* and whatever was loaded and whatever the backend did, the report's models
\* mapping has exactly one entry for each registered identifier and no other key.
C1_Completeness ==
    Returned =>
        /\ DictKeys(Report.models) = ModelNames
        /\ \A m \in ModelNames :
              Cardinality({ i \in 1..Len(Report.models) : Report.models[i].key = m }) = 1

\* A simultaneous run has returned with a model not loaded, a backend failure
\* and an empty output among its models.
C1_Witness ==
    /\ Returned
    /\ mode = "simultaneous"
    /\ \E m \in ModelNames : NotLoadedFor(m)
    /\ \E m \in ModelNames : RaisesFor(m)
    /\ \E m \in ModelNames : EmptyOutputFor(m)

NoModelLoaded == models # << >> /\ \A m \in ModelNames : ~IsLoaded(m)

\* C2 as stated: when the device opened but no model is loaded, the request
\* ends with a single top-level error and no report.
C2_Original ==
    (pc = "exit" /\ NoModelLoaded) =>
        /\ Len(reply) = 1
        /\ IsError(reply[1])
        /\ ~IsReport(reply[1])

\* C2 (amended): when the device opened but no model is loaded, a request with a
\* JSON object still returns a report: every entry is the Failure "Model not
\* loaded", final is "Unable to complete diagnosis" with consensus 0; the
\* top-level error "Failed to initialize Hailo device" is the reply exactly
\* when the device itself did not open.
C2_NoModelLoadedReport ==
    /\ (pc = "exit" /\ NoModelLoaded /\ argData = "object") =>
          /\ Returned
          /\ DictKeys(Report.models) = ModelNames
          /\ \A i \in 1..Len(Report.models) :
                Report.models[i].val = [error |-> "Model not loaded"]
          /\ Report.final = [diagnosis |-> "Unable to complete diagnosis", consensus |-> Zero]
    /\ (pc = "exit" /\ argData \in { "object", "not_object" }) =>
          (reply = << [error |-> "Failed to initialize Hailo device"] >> <=> ~deviceOk)

\* The device opened, no model loaded, and a report came back.
C2_Witness == Returned /\ NoModelLoaded


\* The number of loaded models whose backend call returns a row (empty or not),
\* and the number of those whose first scalar exceeds 0.5.
RowCount == Cardinality({ m \in ModelNames : hw[m].kind = "out" })

FaultRowCount ==
    Cardinality({ m \in ModelNames :
                    hw[m].kind = "out" /\ Len(hw[m].vec) > 0 /\ hw[m].vec[1] > FaultThreshold })

RegistryFirstMax(d) ==
    LET flagged(m) == IsSuccess(DictGet(d, m)) /\ DictGet(d, m).fault_detected
        best(i) == /\ flagged(MODEL_PATHS[i])
                   /\ \A j \in 1..Len(MODEL_PATHS) :
                         flagged(MODEL_PATHS[j]) =>
                             /\ DictGet(d, MODEL_PATHS[j]).confidence
                                   <= DictGet(d, MODEL_PATHS[i]).confidence
                             /\ (j < i => DictGet(d, MODEL_PATHS[j]).confidence
                                             < DictGet(d, MODEL_PATHS[i]).confidence)
    IN  MODEL_PATHS[CHOOSE i \in 1..Len(MODEL_PATHS) : best(i)]

\* C4: when consensus > 0.7 the final diagnosis is "FAULT DETECTED: " followed
\* by the diagnosis of the fault-flagged result of maximum confidence, the
\* earliest in registry order among equals, whatever order the threads end in.
C4_RegistryTieBreak ==
    (Returned /\ ExceedsTenths(Report.final.consensus, ConsensusHigh)) =>
        Report.final.diagnosis =
            "FAULT DETECTED: " \o DictGet(Report.models, RegistryFirstMax(Report.models)).diagnosis

\* C5: with every model succeeding, a simultaneous run reports the same
\* per-model fault_detected, confidence and diagnosis and the same final
\* diagnosis and consensus as the sequential run on the same backend outputs.
C5_ModeEquivalence ==
    (Returned /\ mode = "simultaneous" /\ \A m \in ModelNames : hw[m].kind = "out") =>
        /\ CoreSet(Report.models) = CoreSet(SequentialDiagnose.models)
        /\ Report.final = SequentialDiagnose.final

\* C6 as stated: a caller that gives no mode gets a simultaneous run and a
\* report whose mode is "simultaneous".
C6_Original ==
    (Returned /\ argMode = "absent") =>
        /\ Report.mode = "simultaneous"
        /\ RanConcurrently

\* C6 (amended): a command-line caller that gives no mode argument gets a
\* simultaneous run and mode "simultaneous"; a direct call of diagnose without
\* a mode runs sequentially and reports mode "sequential".
C6_DefaultMode ==
    (Returned /\ argMode = "absent") =>
        /\ entry = "cli" => (Report.mode = "simultaneous" /\ RanConcurrently)
        /\ entry = "api" => (Report.mode = "sequential" /\ RanSequentially)

\* main ran `diagnose` without a mode argument and printed a report.
C6_Witness == Returned /\ argMode = "absent" /\ entry = "cli" /\ RanConcurrently

\* C7: consensus is (Success results with fault_detected) / (Success results),
\* Failure results in neither count; it lies in [0,1] and is 0 when there is
\* no Success result.
C7_Consensus ==
    Returned =>
        LET S == Cardinality(SuccessIdx(Report.models))
            F == Cardinality(FaultIdx(Report.models))
            c == Report.final.consensus
        IN  /\ c.num * S = F * c.den
            /\ c.den > 0
            /\ 0 <= c.num /\ c.num <= c.den
            /\ S = 0 => c.num = 0

\* A report with a Failure, a fault vote and a no-fault vote.
C7_Witness ==
    /\ Returned
    /\ \E i \in 1..Len(Report.models) : IsFailure(Report.models[i].val)
    /\ Cardinality(FaultIdx(Report.models)) = 1
    /\ Cardinality(SuccessIdx(Report.models)) = 2

\* C8: the final diagnosis follows the tier policy for every result mapping:
\* no Success result gives "Unable to complete diagnosis"; consensus <= 0.3
\* gives "System operating normally"; 0.3 < consensus <= 0.7 gives "Potential
\* issue detected - monitoring recommended"; consensus > 0.7 gives "FAULT
\* DETECTED: " followed by a fault-flagged result's diagnosis.
C8_TierPolicy ==
    pc = "agg_done" =>
        LET S == Cardinality(SuccessIdx(results))
            F == Cardinality(FaultIdx(results))
            d == reply[1].diagnosis
        IN  /\ S = 0 => d = "Unable to complete diagnosis"
            /\ (S > 0 /\ 10 * F <= 3 * S) => d = "System operating normally"
            /\ (S > 0 /\ 10 * F > 3 * S /\ 10 * F <= 7 * S) =>
                  d = "Potential issue detected - monitoring recommended"
            /\ (S > 0 /\ 10 * F > 7 * S) =>
                  \E i \in FaultIdx(results) :
                      d = "FAULT DETECTED: " \o results[i].val.diagnosis

\* Consensus is exactly 0.7 (7 fault votes of 10) and the lower tier is chosen.
C8_Witness ==
    /\ pc = "agg_done"
    /\ Cardinality(SuccessIdx(results)) = 10
    /\ Cardinality(FaultIdx(results)) = 7
    /\ reply[1].diagnosis = "Potential issue detected - monitoring recommended"

\* C9 (threshold consistency): every Success result of either mode has
\* fault_detected = (confidence > 0.5); a confidence of exactly 0.5 is no fault.
C9_ThresholdConsistency ==
    Returned =>
        \A i \in 1..Len(Report.models) :
            IsSuccess(Report.models[i].val) =>
                /\ Report.models[i].val.fault_detected
                      = (Report.models[i].val.confidence > FaultThreshold)
                /\ \A p \in Probs :
                      ValueFor(Report.models[i].key, p) => Report.models[i].val.confidence = p

\* A simultaneous run stored a Success with confidence exactly 0.5.
C9_Witness ==
    /\ Returned
    /\ mode = "simultaneous"
    /\ \E i \in 1..Len(Report.models) :
          /\ IsSuccess(Report.models[i].val)
          /\ Report.models[i].val.confidence = FaultThreshold
          /\ ~Report.models[i].val.fault_detected

\* C10: the diagnosis string of every Success result is its model's fault
\* string exactly when the fault probability exceeds 0.5 (so it agrees with
\* fault_detected, also at 0.5) and its normal string otherwise.
C10_DiagnosisMatchesFlag ==
    Returned =>
        \A i \in 1..Len(Report.models) :
            IsSuccess(Report.models[i].val) =>
                Report.models[i].val.diagnosis =
                    IF Report.models[i].val.confidence > FaultThreshold
                    THEN FaultString[Report.models[i].key]
                    ELSE NormalString[Report.models[i].key]


\* The entry a model gets from its own file, load and backend outcome, with
\* nothing of the other models in it.
OwnCore(m) ==
    IF NotLoadedFor(m) THEN [error |-> "Model not loaded"]
    ELSE IF RaisesFor(m) THEN [error |-> "Inference failed"]
    ELSE LET fault_prob == IF hw[m].vec = << >> THEN 0 ELSE hw[m].vec[1]
         IN  [fault_detected |-> fault_prob > FaultThreshold,
              confidence     |-> fault_prob,
              diagnosis      |-> interpret_diagnosis(m, fault_prob)]

BackendCalled == \E m \in ModelNames : calls[m] > 0

\* C11: a failing backend call does not abort the batch, and in either mode
\* the entry of every model (fault_detected, confidence, diagnosis) is fixed by
\* that model's own outcome: two runs that differ in one model's failure agree
\* on every other entry.
C11_Isolation ==
    /\ (pc = "exit" /\ BackendCalled) => Returned
    /\ Returned =>
           \A m \in ModelNames :
               /\ m \in DictKeys(Report.models)
               /\ Core(DictGet(Report.models, m)) = OwnCore(m)

C11_Witness ==
    /\ Returned
    /\ \E m, n \in ModelNames :
           /\ RaisesFor(m)
           /\ ValueFor(n, 90)
           /\ DictIndex(Report.models, m) < DictIndex(Report.models, n)
           /\ IsFailure(DictGet(Report.models, m))
           /\ IsSuccess(DictGet(Report.models, n))


\* The request as a whole is bad: the payload is no JSON, or no JSON object,
\* or the device does not open.
WholeRequestError == argData \in { "invalid_json", "not_object" } \/ ~deviceOk

\* C12: a malformed payload or a failed device initialization ends in one
\* top-level error object, and no backend call is made at any point of such a
\* run, before or after the error is printed.
C12_ShortCircuit ==
    WholeRequestError =>
        /\ \A m \in ModelNames : calls[m] = 0 /\ tpc[m] = "unborn"
        /\ pc \notin { "seq_infer", "spawn", "join", "aggregate" }
        /\ results = << >>
        /\ IF pc = "exit"
           THEN Len(reply) = 1 /\ IsError(reply[1]) /\ ~IsReport(reply[1])
           ELSE reply = << >>

C12_Witness ==
    /\ pc = "exit"
    /\ argData = "not_object"
    /\ \E m \in ModelNames : IsLoaded(m)
    /\ Len(reply) = 1
    /\ IsError(reply[1])
    /\ \A m \in ModelNames : calls[m] = 0


\* The report's entry of model m is a Success that carries the time taken
\* around m's backend call.
CarriesInferenceTime(m) ==
    /\ "inference_time_ms" \in DOMAIN DictGet(Report.models, m)
    /\ ~IsNone(tloc[m])
    /\ DictGet(Report.models, m).inference_time_ms = tloc[m].inference_time

SuccessModels == { m \in DictKeys(Report.models) : IsSuccess(DictGet(Report.models, m)) }

NeverReturns(m) == hw[m].kind = "hang"

\* C14: under fair scheduling, when every backend call returns, diagnose
\* eventually returns a report; when the backend call of some model never
\* returns, diagnose never returns and no report, partial or complete, is
\* ever produced.
C14_Termination ==
    /\ (\A m \in ModelNames : ~NeverReturns(m)) => <>Returned
    /\ (\E m \in ModelNames : NeverReturns(m)) => [](pc # "exit" /\ reply = << >>)

C14_Witness ==
    /\ pc = "join"
    /\ reply = << >>
    /\ \E m \in ModelNames :
           /\ NeverReturns(m)
           /\ tpc[m] = "infer"
           /\ \A n \in ModelNames \ { m } : tpc[n] = "done"


\* The worker threads inside `with lock:`.
LockHolders == { m \in ModelNames : tpc[m] = "write" }

\* The backend call of m is in progress.
InBackendCall(m) == tpc[m] = "infer" \/ (pc = "seq_infer" /\ MODEL_PATHS[seqIdx] = m)

\* A worker thread takes a step.
WorkerStep == \E m \in ModelNames : tpc[m] # "unborn" /\ tpc'[m] # tpc[m]

KeyCount(d, k) == Cardinality({ i \in 1..Len(d) : d[i].key = k })

\* C15: in simultaneous mode at most one worker holds the lock, none holds it
\* while its backend call is in progress, every write of a worker to the
\* result map is made by the holder of the lock, and each worker writes one
\* key, its own identifier, once.
C15_LockDiscipline ==
    [][ /\ Cardinality(LockHolders') <= 1
        /\ \A m \in ModelNames :
               /\ (lock' = m) <=> (m \in LockHolders')
               /\ InBackendCall(m)' => lock' # m
               /\ mode' = "simultaneous" =>
                      KeyCount(results', m) = IF tpc'[m] = "done" THEN 1 ELSE 0
        /\ (WorkerStep /\ results' # results) =>
               \E m \in ModelNames :
                   /\ lock = m
                   /\ tpc[m] = "write" /\ tpc'[m] = "done"
                   /\ KeyCount(results, m) = 0
                   /\ Len(results') = Len(results) + 1
                   /\ SubSeq(results', 1, Len(results)) = results
                   /\ results'[Len(results')].key = m
      ]_vars

C15_Witness ==
    \E m, n, k \in ModelNames :
        /\ lock = m /\ tpc[m] = "write"
        /\ tpc[n] = "lock"
        /\ tpc[k] = "infer"
        /\ KeyCount(results, m) = 0


HasTotalTime(r) == "total_ensemble_time_ms" \in DOMAIN r

\* C16: in simultaneous mode the total time is attached, and the aggregation
\* runs, only after every started worker has written its entry; in the
\* returned report every Success carries total_ensemble_time_ms with one and
\* the same value, and no Failure carries it.
C16_WaitAll ==
    /\ ( \/ \E i \in 1..Len(results) : HasTotalTime(results[i].val)
         \/ (mode = "simultaneous" /\ pc = "aggregate")
         \/ (mode = "simultaneous" /\ Returned) )
       => /\ nStarted = Len(MODEL_PATHS)
          /\ \A m \in ModelNames : tpc[m] = "done" /\ KeyCount(results, m) = 1
    /\ (mode = "simultaneous" /\ Returned)
       => \E total_time \in EnsembleMs :
              \A i \in 1..Len(Report.models) :
                  LET r == Report.models[i].val
                  IN  IF IsSuccess(r)
                      THEN HasTotalTime(r) /\ r.total_ensemble_time_ms = total_time
                      ELSE IsFailure(r) /\ ~HasTotalTime(r)

C16_Witness ==
    /\ Returned
    /\ mode = "simultaneous"
    /\ \E i, j, k \in 1..Len(Report.models) :
           /\ i < j
           /\ IsFailure(Report.models[k].val)
           /\ IsSuccess(Report.models[i].val) /\ IsSuccess(Report.models[j].val)
           /\ Report.models[i].val.total_ensemble_time_ms = 9
           /\ Report.models[j].val.total_ensemble_time_ms = 9


\* C17: in either mode the backend is invoked exactly once for every loaded
\* model, a failed call included, and never for a model that is not loaded,
\* whose entry is the "Model not loaded" Failure.
C17_CallCount ==
    /\ \A m \in ModelNames : calls[m] <= (IF NotLoadedFor(m) THEN 0 ELSE 1)
    /\ Returned =>
           \A m \in ModelNames :
               /\ calls[m] = (IF NotLoadedFor(m) THEN 0 ELSE 1)
               /\ KeyCount(Report.models, m) = 1
               /\ NotLoadedFor(m) =>
                      DictGet(Report.models, m) = [error |-> "Model not loaded"]
               /\ RaisesFor(m) =>
                      DictGet(Report.models, m) = [error |-> "Inference failed"]

C17_Witness ==
    /\ Returned
    /\ \E m, n, k \in ModelNames :
           /\ NotLoadedFor(m) /\ calls[m] = 0
           /\ RaisesFor(n) /\ calls[n] = 1
           /\ ValueFor(k, 60) /\ calls[k] = 1


\* The backend call of a model has begun and its entry is not stored yet.
CallOpen(m) == calls[m] > 0 /\ KeyCount(results, m) = 0

\* C18: outside simultaneous mode the backend calls are made one at a time
\* in registry order: when the call of a model has begun, every model before
\* it in the registry has its entry stored, a loaded one after exactly one
\* call, and no two calls are open together.
C18_SequentialOrder ==
    mode \notin { "unset", "simultaneous" } =>
        /\ Cardinality({ m \in ModelNames : CallOpen(m) }) <= 1
        /\ \A i, j \in 1..Len(MODEL_PATHS) :
               (i < j /\ calls[MODEL_PATHS[j]] > 0) =>
                   /\ KeyCount(results, MODEL_PATHS[i]) = 1
                   /\ ~NotLoadedFor(MODEL_PATHS[i]) => calls[MODEL_PATHS[i]] = 1
        /\ \A i \in 1..Len(results) : results[i].key = MODEL_PATHS[i]
        /\ \A m \in ModelNames : tpc[m] = "unborn"

C18_Witness ==
    /\ mode = "sequential"
    /\ pc = "seq_infer"
    /\ seqIdx = Len(MODEL_PATHS)
    /\ CallOpen(MODEL_PATHS[seqIdx])
    /\ calls[MODEL_PATHS[1]] = 1
    /\ IsSuccess(DictGet(results, MODEL_PATHS[1]))


\* initialize has run on a device that opened.
Initialized == deviceOk /\ mode # "unset" /\ pc # "initialize"

\* C19: when the device opens, initialize succeeds and records one registry
\* entry for every known identifier whatever the individual loads do; a
\* missing file or a load error is recorded as loaded = false with an error,
\* and the loaded status of a model follows from its own load alone.
C19_LoadIndependence ==
    Initialized =>
        /\ \A i \in 1..Len(reply) : reply[i] # [error |-> "Failed to initialize Hailo device"]
        /\ Len(models) = Len(MODEL_PATHS)
        /\ \A i \in 1..Len(models) :
               /\ models[i].key = MODEL_PATHS[i]
               /\ models[i].val.loaded = ~NotLoadedFor(MODEL_PATHS[i])
               /\ NotLoadedFor(MODEL_PATHS[i]) <=> "error" \in DOMAIN models[i].val
               /\ hw[MODEL_PATHS[i]].kind = "missing" =>
                      models[i].val.error = "File not found"
        /\ network_groups = { m \in ModelNames : ~NotLoadedFor(m) }

C19_Witness ==
    /\ Initialized
    /\ pc = "diagnose"
    /\ \E i, j, k \in 1..Len(models) :
           /\ i < j /\ i < k
           /\ hw[models[i].key].kind = "missing" /\ ~models[i].val.loaded
           /\ hw[models[j].key].kind = "loaderr" /\ ~models[j].val.loaded
           /\ models[k].val.loaded


\* The tier a final diagnosis belongs to.
TierOf(diagnosis) ==
    IF diagnosis = "Unable to complete diagnosis" THEN "unable"
    ELSE IF diagnosis = "System operating normally" THEN "normal"
    ELSE IF diagnosis = "Potential issue detected - monitoring recommended" THEN "potential"
    ELSE "fault detected"

\* The models whose backend call returns a row, and those among them whose
\* value exceeds the threshold: the backend outcomes, no order in them.
BackendSuccesses == { m \in ModelNames : hw[m].kind = "out" }

BackendFaults == { m \in BackendSuccesses : hw[m].vec # << >> /\ hw[m].vec[1] > FaultThreshold }

\* C20: in simultaneous mode the final consensus and the tier of the final
\* diagnosis are fixed by the backend outcomes: they are the same for every
\* order in which the workers complete.
C20_OrderIndependence ==
    (Returned /\ mode = "simultaneous") =>
        LET S == Cardinality(BackendSuccesses)
            F == Cardinality(BackendFaults)
            c == Report.final.consensus
        IN  /\ c.den > 0
            /\ c.num * (IF S = 0 THEN 1 ELSE S) = F * c.den
            /\ TierOf(Report.final.diagnosis) =
                  IF S = 0 THEN "unable"
                  ELSE IF 10 * F > ConsensusHigh * S THEN "fault detected"
                  ELSE IF 10 * F > ConsensusLow * S THEN "potential"
                  ELSE "normal"

C20_Witness ==
    /\ Returned
    /\ mode = "simultaneous"
    /\ Report.models[1].key = MODEL_PATHS[Len(MODEL_PATHS)]
    /\ Cardinality(BackendSuccesses) = Len(MODEL_PATHS)
    /\ Cardinality(BackendFaults) = 2
    /\ TierOf(Report.final.diagnosis) = "potential"


\* C21: diagnose never produces the final diagnosis "Multiple system issues
\* detected": whenever the consensus of the stored entries exceeds 0.7, at
\* least one stored entry has fault_detected true, in either mode and for
\* every order of the entries.
C21_NoEmptyFaultSet ==
    /\ \A i \in 1..Len(reply) :
           IsReport(reply[i]) =>
               /\ reply[i].final.diagnosis # "Multiple system issues detected"
               /\ ExceedsTenths(reply[i].final.consensus, ConsensusHigh) =>
                      FaultIdx(reply[i].models) # {}
    /\ pc = "aggregate" =>
           \/ 10 * Cardinality(FaultIdx(results)) <=
                 ConsensusHigh * Cardinality(SuccessIdx(results))
           \/ \E i \in 1..Len(results) : FaultFlag(results[i].val)

C21_Witness ==
    /\ Returned
    /\ ExceedsTenths(Report.final.consensus, ConsensusHigh)
    /\ Cardinality(FaultIdx(Report.models)) = Len(MODEL_PATHS)
    /\ \A i \in FaultIdx(Report.models) : Report.models[i].val.confidence = 60
    /\ TierOf(Report.final.diagnosis) = "fault detected"


\* C22: the report's mode names the way the models were run: they are run
\* concurrently only for the mode value "simultaneous", the report says
\* "simultaneous" exactly when they were dispatched concurrently, and
\* "sequential" exactly when they were run one at a time.
C22_ModeNamesExecution ==
    Returned =>
        /\ RanConcurrently \/ RanSequentially
        /\ RanConcurrently => mode = "simultaneous"
        /\ (Report.mode = "simultaneous") <=> RanConcurrently
        /\ (Report.mode = "sequential") <=> RanSequentially

====
